---- MODULE Spec2Model ----
(***************************************************************************)
(* Camera-pose canonicalization notebook                                   *)
(* (nerfstudio/process_data/gerry00_canonicalize_camera_poses.ipynb).      *)
(*                                                                         *)
(* The notebook is a Python kernel: its state is the kernel namespace, and *)
(* every code cell is an operation that can be run at any time.  A cell    *)
(* that raises stops at the raising statement; the bindings made before it *)
(* stay.  Spec runs the cells that work on the raw capture (sort, distance *)
(* matrix, duplicate removal and fit, transform); SpecROI runs the cells   *)
(* that work on the canonicalized frames, from the kernel state after the  *)
(* cell that binds them; SpecFit runs the similarity fit alone.            *)
(*                                                                         *)
(* Real numbers are exact rationals <<n, d>> (d > 0, lowest terms); the    *)
(* float NaN is <<0, 0>>.  Raw pose coordinates are integers, held as      *)
(* plain integers where only sums, products and comparisons are taken.     *)
(* Python indices are 0-based: element i of a list or array is the TLA+    *)
(* sequence's element i + 1.                                               *)
(***************************************************************************)
EXTENDS Integers, Sequences, FiniteSets, TLC

VARIABLES
    data,        \* transforms.json as loaded: frames (file order), fl_x, fl_y, cx, cy
    frames,      \* the frames sorted by file_path
    Ts,          \* the array of poses [R |-> 3x3, t |-> 3-vector]
    ts,          \* Ts[:, :3, 3]: a view of the array Ts was bound to when it was taken
    dists,       \* the normalised distance matrix, diagonal filled with 1
    duplicates,  \* np.argwhere of the thresholded matrix, row-major
    to_take,     \* the indices kept
    big_circle,  \* the 24 indices chosen for the fit
    sR, t,       \* the fitted linear part and offset
    T,           \* the 4x4 transform built from sR and t
    new_Ts,      \* T @ Ts
    z_height,    \* the subject's estimated height
    scale_factor,
    runs,        \* how many times the centering and rescaling cells were run
    fit_in,      \* a similarity and a point set handed to the fit
    fit_out,     \* what the fit returned
    defined,     \* the names bound in the kernel namespace
    err          \* the exception the last cell run raised ("none" if it completed)

roiVars == <<z_height, scale_factor, runs>>
fitVars == <<fit_in, fit_out>>

vars == <<data, frames, Ts, ts, dists, duplicates, to_take, big_circle, sR, t, T,
          new_Ts, z_height, scale_factor, runs, fit_in, fit_out, defined, err>>

-----------------------------------------------------------------------------
(* Exact arithmetic *)

Abs(x) == IF x < 0 THEN -x ELSE x

RECURSIVE GCD(_, _)
GCD(a, b) == IF b = 0 THEN a ELSE GCD(b, a % b)

NaN == <<0, 0>>

\* n / d as a float would hold it: 0/0 is NaN; a rational is kept in lowest terms.
Rat(n, d) ==
    IF d = 0 THEN (IF n = 0 THEN NaN ELSE <<(IF n < 0 THEN -1 ELSE 1), 0>>)
    ELSE LET g == GCD(Abs(n), Abs(d))
             s == IF d < 0 THEN -1 ELSE 1
         IN  <<s * (n \div g), s * (d \div g)>>

RInt(n) == <<n, 1>>
IsNaN(x) == x = NaN
IsFinite(x) == x[2] > 0

RMul(x, y) ==
    IF IsNaN(x) \/ IsNaN(y) THEN NaN
    ELSE LET a == Rat(x[1], y[2])
             b == Rat(y[1], x[2])
         IN  Rat(a[1] * b[1], a[2] * b[2])

RAdd(x, y) ==
    IF IsNaN(x) \/ IsNaN(y) THEN NaN
    ELSE IF x[2] = 0 \/ y[2] = 0
         THEN (IF x[2] = 0 /\ y[2] = 0 /\ x[1] # y[1] THEN NaN
               ELSE IF x[2] = 0 THEN x ELSE y)
    ELSE LET g == GCD(x[2], y[2])
         IN  Rat(x[1] * (y[2] \div g) + y[1] * (x[2] \div g), (x[2] \div g) * y[2])

RNeg(x) == <<-x[1], x[2]>>
RSub(x, y) == RAdd(x, RNeg(y))

RDiv(x, y) ==
    IF IsNaN(x) \/ IsNaN(y) THEN NaN
    ELSE IF y[2] = 0 THEN (IF x[2] = 0 THEN NaN ELSE RInt(0))
    ELSE IF y[1] = 0 THEN Rat(x[1], 0)
    ELSE RMul(x, Rat(y[2], y[1]))

\* x < y on floats: false when either is NaN.
RLess(x, y) ==
    /\ ~IsNaN(x) /\ ~IsNaN(y)
    /\ IF x[2] = 0 \/ y[2] = 0
       THEN (IF x[2] = 0 /\ y[2] = 0 THEN x[1] < y[1]
             ELSE IF x[2] = 0 THEN x[1] < 0 ELSE y[1] > 0)
       ELSE x[1] * y[2] < y[1] * x[2]

-----------------------------------------------------------------------------
(* 3-vectors and 3x3 matrices over the integers *)

Idx3 == 1..3
Identity == <<<<1, 0, 0>>, <<0, 1, 0>>, <<0, 0, 1>>>>

VAdd(u, v) == <<u[1] + v[1], u[2] + v[2], u[3] + v[3]>>
VSub(u, v) == <<u[1] - v[1], u[2] - v[2], u[3] - v[3]>>
VScale(c, v) == <<c * v[1], c * v[2], c * v[3]>>
Dot(u, v) == u[1] * v[1] + u[2] * v[2] + u[3] * v[3]
MatVec(M, v) == <<Dot(M[1], v), Dot(M[2], v), Dot(M[3], v)>>
Col(M, j) == <<M[1][j], M[2][j], M[3][j]>>
Transpose(M) == <<Col(M, 1), Col(M, 2), Col(M, 3)>>
MatMul(A, B) ==
    LET Bt == Transpose(B)
    IN  <<MatVec(Bt, A[1]), MatVec(Bt, A[2]), MatVec(Bt, A[3])>>
Det(M) ==
      M[1][1] * (M[2][2] * M[3][3] - M[2][3] * M[3][2])
    - M[1][2] * (M[2][1] * M[3][3] - M[2][3] * M[3][1])
    + M[1][3] * (M[2][1] * M[3][2] - M[2][2] * M[3][1])

\* f[lo] + ... + f[hi], by halves
RECURSIVE Sum(_, _, _)
Sum(f, lo, hi) ==
    IF lo > hi THEN 0
    ELSE IF lo = hi THEN f[lo]
    ELSE LET mid == (lo + hi) \div 2 IN Sum(f, lo, mid) + Sum(f, mid + 1, hi)

SumVecs(pts, n) ==
    <<Sum([k \in 1..n |-> pts[k][1]], 1, n), Sum([k \in 1..n |-> pts[k][2]], 1, n),
      Sum([k \in 1..n |-> pts[k][3]], 1, n)>>

\* The same over the rationals
QVec(v) == <<RInt(v[1]), RInt(v[2]), RInt(v[3])>>
QMat(M) == <<QVec(M[1]), QVec(M[2]), QVec(M[3])>>
QDot(u, v) == RAdd(RAdd(RMul(u[1], v[1]), RMul(u[2], v[2])), RMul(u[3], v[3]))
QMatVec(M, v) == <<QDot(M[1], v), QDot(M[2], v), QDot(M[3], v)>>
QMatMul(A, B) ==
    LET Bt == Transpose(B)
    IN  <<QMatVec(Bt, A[1]), QMatVec(Bt, A[2]), QMatVec(Bt, A[3])>>
QVAdd(u, v) == <<RAdd(u[1], v[1]), RAdd(u[2], v[2]), RAdd(u[3], v[3])>>
QVSub(u, v) == <<RSub(u[1], v[1]), RSub(u[2], v[2]), RSub(u[3], v[3])>>
QScaleVec(c, v) == <<RMul(c, v[1]), RMul(c, v[2]), RMul(c, v[3])>>
QScaleMat(c, M) == <<QScaleVec(c, M[1]), QScaleVec(c, M[2]), QScaleVec(c, M[3])>>

At(s, i) == s[i + 1]

\* The sequence s with its elements computed (a list or array holds values).
Array(s) == SubSeq(s, 1, Len(s))

Range(n) == Array([i \in 1..n |-> i - 1])

-----------------------------------------------------------------------------
(* Input poses.  A capture rig is two concentric rings of 24 cameras, one  *)
(* every 15 degrees, seen through an unknown similarity (scale, rotation,  *)
(* offset), with some frames captured twice and one possibly missing or    *)
(* extra.           Small pose lists on a line cover arbitrary duplicate   *)
(* relations.                                                              *)

MaxSmall == 4    \* longest small pose list
MaxDups == 2     \* most repeated captures in a rig
MaxScale == 2    \* largest scale of the rig's unknown similarity

\* 10 * cos(0), cos(15), ..., cos(90), rounded: the rings are polygons on this grid.
CosTab == <<10, 10, 9, 7, 5, 3, 0>>

Cos15(k) ==
    IF k <= 6 THEN CosTab[k + 1]
    ELSE IF k <= 12 THEN -CosTab[13 - k]
    ELSE IF k <= 18 THEN -CosTab[k - 11]
    ELSE CosTab[25 - k]

Sin15(k) == Cos15((k + 18) % 24)

RotZ90 == <<<<0, -1, 0>>, <<1, 0, 0>>, <<0, 0, 1>>>>
RotX90 == <<<<1, 0, 0>>, <<0, 0, -1>>, <<0, 1, 0>>>>

\* Camera `slot` of a ring, clockwise from angle 0; the big ring is 3/2 the small one.
RigPoint(ring, slot) ==
    LET m == IF ring = "big" THEN 3 ELSE 2
    IN  <<m * Cos15(slot), -m * Sin15(slot), 0>>

\* Which camera the frame with sorted index i is.
Layout(name, i) ==
    CASE name = "big_first" ->
           IF i < 24 THEN <<"big", i>> ELSE <<"small", i - 24>>
      [] name = "small_first" ->
           IF i < 24 THEN <<"small", i>> ELSE <<"big", i - 24>>
      [] name = "half_swapped" ->
           IF i < 12 THEN <<"big", i>>
           ELSE IF i < 24 THEN <<"small", i>>
           ELSE IF i < 36 THEN <<"small", i - 24>>
           ELSE <<"big", i - 24>>

Layouts == {"big_first", "small_first", "half_swapped"}

RigPose(cam, sim) ==
    [R |-> MatMul(sim.rot, IF cam[2] % 2 = 0 THEN Identity ELSE RotZ90),
     t |-> VAdd(VScale(sim.scale, MatVec(sim.rot, RigPoint(cam[1], cam[2]))), sim.off)]

Sims ==
    {[scale |-> k, rot |-> IF k % 2 = 1 THEN Identity ELSE RotX90,
      off |-> VScale(k - 1, <<3, -2, 5>>)] : k \in 1..MaxScale}

\* A second capture of a frame: the same orientation, one unit higher.
Recapture(pose) == [pose EXCEPT !.t = VAdd(pose.t, <<0, 0, 1>>)]

InsertAt(s, i, x) ==
    LET k == IF i > Len(s) THEN Len(s) ELSE i
    IN  SubSeq(s, 1, k) \o <<x>> \o SubSeq(s, k + 1, Len(s))

RemoveAt(s, i) == SubSeq(s, 1, i) \o SubSeq(s, i + 2, Len(s))

\* <<original index, index the recapture is filed at>>
DupChoices == {<<5, 27>>, <<5, 30>>, <<0, 24>>}

RECURSIVE InsertDups(_, _)
InsertDups(s, dups) ==
    IF dups = {} THEN s
    ELSE LET d == CHOOSE x \in dups : \A y \in dups : x[2] <= y[2]
         IN  InsertDups(InsertAt(s, d[2], Recapture(At(s, d[1]))), dups \ {d})

DupSets == {D \in SUBSET DupChoices : Cardinality(D) <= MaxDups}

\* Complete rigs in every layout and similarity; and the first rig with a frame
\* missing or with a frame of another camera added.
RigInputs ==
    [layout : Layouts, sim : Sims, anomaly : {"none"}, dups : DupSets]
    \cup [layout : {"big_first"}, sim : {s \in Sims : s.scale = 1},
          anomaly : {"drop", "extra"}, dups : DupSets]

\* The rig's poses in file_path order.
RigPoses(in) ==
    LET base == Array([i \in 1..48 |-> RigPose(Layout(in.layout, i - 1), in.sim)])
        kept == IF in.anomaly = "drop" THEN RemoveAt(base, 10) ELSE base
        more == IF in.anomaly = "extra"
                THEN Append(kept, [R |-> Identity,
                                   t |-> VAdd(VScale(in.sim.scale, <<0, 0, 40>>), in.sim.off)])
                ELSE kept
    IN  InsertDups(more, in.dups)

SmallPoints == {<<0, 0, 0>>, <<2, 0, 0>>, <<3, 0, 0>>, <<40, 0, 0>>}

SmallPoses == UNION {[1..n -> [R : {Identity}, t : SmallPoints]] : n \in 1..MaxSmall}

\* data['frames'] holding `poses`, listed in file_path order or in reverse.
FramesOf(poses, reversed) ==
    Array([i \in 1..Len(poses) |->
        LET k == IF reversed THEN Len(poses) + 1 - i ELSE i
        IN  [file_path |-> k, transform_matrix |-> poses[k]]])

DataOf(fs) == [frames |-> fs, fl_x |-> 1, fl_y |-> 1, cx |-> 1, cy |-> 1]

Undefined == <<>>

Init ==
    /\ \/ \E in \in RigInputs : data = DataOf(FramesOf(RigPoses(in), TRUE))
       \/ \E ps \in SmallPoses : data = DataOf(FramesOf(ps, FALSE))
    /\ frames = Undefined /\ Ts = Undefined /\ ts = Undefined
    /\ dists = Undefined /\ duplicates = Undefined /\ to_take = Undefined
    /\ big_circle = Undefined /\ sR = Undefined /\ t = Undefined /\ T = Undefined
    /\ new_Ts = Undefined
    /\ z_height = Undefined /\ scale_factor = Undefined /\ runs = 0
    /\ fit_in = Undefined /\ fit_out = Undefined
    /\ defined = {"data"}
    /\ err = "none"

-----------------------------------------------------------------------------
(* Cell: frames = sorted(data['frames'], key=file_path); Ts = np.array(...) *)

\* sorted(fs, key=file_path): stable, so a frame's place is the number of frames
\* with a smaller path, or an equal path and an earlier position.
SortedByPath(fs) ==
    LET n == Len(fs)
        Before(j, k) == \/ fs[j].file_path < fs[k].file_path
                        \/ fs[j].file_path = fs[k].file_path /\ j < k
        rank == Array([k \in 1..n |-> Cardinality({j \in 1..n : Before(j, k)})])
    IN  Array([i \in 1..n |-> fs[CHOOSE k \in 1..n : rank[k] = i - 1]])

TransformMatrices(fs) == Array([i \in 1..Len(fs) |-> fs[i].transform_matrix])

\* The translations a view ts reads: those of the array it was taken from.
Translations(arr) == Array([i \in 1..Len(arr) |-> arr[i].t])

LoadFramesCell ==
    /\ frames' = SortedByPath(data.frames)
    /\ Ts' = TransformMatrices(frames')
    \* a view ts taken earlier stays on the array Ts was bound to, which is never
    \* written and holds what the new array holds
    /\ defined' = defined \cup {"frames", "Ts"}
    /\ err' = "none"
    /\ UNCHANGED <<data, ts, dists, duplicates, to_take, big_circle, sR, t, T, new_Ts>>
    /\ UNCHANGED <<roiVars, fitVars>>

\* What the view ts reads now.
TsView == IF ts.of_Ts THEN Translations(Ts) ELSE ts.buf

-----------------------------------------------------------------------------
(* Cell: the normalised pairwise distance matrix.                          *)
(* An entry <<a, b>> of dists stands for the float sqrt(a / b): the        *)
(* squared distance over the squared largest distance.  Squaring keeps     *)
(* every comparison the notebook makes on these non-negative numbers.      *)

Dist2(u, v) == Dot(VSub(u, v), VSub(u, v))

\* max(f[lo], ..., f[hi]), by halves
RECURSIVE MaxOf(_, _, _)
MaxOf(f, lo, hi) ==
    IF lo = hi THEN f[lo]
    ELSE LET mid == (lo + hi) \div 2
             a == MaxOf(f, lo, mid)
             b == MaxOf(f, mid + 1, hi)
         IN  IF a > b THEN a ELSE b

\* dists = sqrt(sum(square(...))); dists /= np.max(dists); np.fill_diagonal(dists, 1)
DistanceMatrix(pts) ==
    LET n == Len(pts)
        sq == Array([i \in 1..n |-> Array([j \in 1..n |-> Dist2(pts[i], pts[j])])])
        mx == MaxOf(Array([i \in 1..n |-> MaxOf(sq[i], 1, n)]), 1, n)
    IN  Array([i \in 1..n |-> Array([j \in 1..n |->
            IF i = j THEN <<1, 1>>
            ELSE IF mx = 0 THEN NaN
            ELSE <<sq[i][j], mx>>])])

DistsCell ==
    /\ UNCHANGED <<roiVars, fitVars>>
    /\ IF "Ts" \notin defined
       THEN /\ err' = "NameError"
            /\ UNCHANGED <<data, frames, Ts, ts, dists, duplicates, to_take, big_circle,
                           sR, t, T, new_Ts, defined>>
       ELSE /\ ts' = [of_Ts |-> TRUE, buf |-> <<>>]
            /\ dists' = DistanceMatrix(Translations(Ts))
            /\ defined' = defined \cup {"ts", "dists"}
            /\ err' = "none"
            /\ UNCHANGED <<data, frames, Ts, duplicates, to_take, big_circle, sR, t, T,
                           new_Ts>>

-----------------------------------------------------------------------------
(* canonicalize_camera_poses.ICP_transform_with_scale: the closed-form     *)
(* similarity fit (centroids, cross-covariance, SVD, determinant           *)
(* correction, scale, offset).  A point set is [pts, den]: point i is      *)
(* pts[i] / den.                                                           *)

Perms3 == {<<1, 2, 3>>, <<1, 3, 2>>, <<2, 1, 3>>, <<2, 3, 1>>, <<3, 1, 2>>, <<3, 2, 1>>}

\* The orthogonal matrices with entries in {-1, 0, 1}.
UnitVec(j, sg) == <<IF j = 1 THEN sg ELSE 0, IF j = 2 THEN sg ELSE 0, IF j = 3 THEN sg ELSE 0>>

Orthogonal ==
    {<<UnitVec(p[1], a), UnitVec(p[2], b), UnitVec(p[3], c)>> :
        p \in Perms3, a \in {-1, 1}, b \in {-1, 1}, c \in {-1, 1}}

Rotations == {M \in Orthogonal : Det(M) = 1}

Diag(d) == <<<<d[1], 0, 0>>, <<0, d[2], 0>>, <<0, 0, d[3]>>>>

\* The decompositions H = U diag(S) V^T with S >= 0 descending that an SVD
\* routine may return, for the matrices H that have one with U and V in
\* Orthogonal.  Which one is returned is the routine's choice.  With equal
\* singular values there are more, U and V turned by the same rotation of
\* that eigenspace: V diag(1, 1, d) U^T is the same for them.  For any other
\* H the decomposition is not computed here and evaluation stops.
ColumnNorm(M, j) == Abs(M[1][j]) + Abs(M[2][j]) + Abs(M[3][j])

\* The singular values when V = d.V: the lengths of the columns of H V.
SingularValues(H, d) ==
    LET HV == MatMul(H, d.V)
    IN  <<ColumnNorm(HV, 1), ColumnNorm(HV, 2), ColumnNorm(HV, 3)>>

SVDs(H) ==
    LET Vs == {V \in Orthogonal :
                 LET S == SingularValues(H, [V |-> V])
                 IN  S[1] >= S[2] /\ S[2] >= S[3]}
        all == UNION {{[U |-> U, V |-> V] : U \in {W \in Orthogonal :
                          MatMul(W, Diag(SingularValues(H, [V |-> V]))) = MatMul(H, V)}} :
                      V \in Vs}
    IN  IF all = {} THEN {CHOOSE d \in all : TRUE} ELSE all

\* The rotation without the determinant correction: V U^T
KabschUncorrected(d) == MatMul(d.V, Transpose(d.U))

\* R = V diag(1, 1, det(V U^T)) U^T
KabschRotation(d) ==
    MatMul(MatMul(d.V, Diag(<<1, 1, Det(MatMul(d.V, Transpose(d.U)))>>)), Transpose(d.U))

\* n * (p_i - centroid), an integer vector
Centered(pts) ==
    LET n == Len(pts)
        sum == SumVecs(pts, n)
    IN  Array([i \in 1..n |-> VSub(VScale(n, pts[i]), sum)])

\* H = Pc^T Qc
CrossCovariance(Pc, Qc, n) ==
    LET E(i, j) == Sum([k \in 1..n |-> Pc[k][i] * Qc[k][j]], 1, n)
    IN  <<<<E(1, 1), E(1, 2), E(1, 3)>>, <<E(2, 1), E(2, 2), E(2, 3)>>,
          <<E(3, 1), E(3, 2), E(3, 3)>>>>

SumSquares(Pc, n) == Sum([k \in 1..n |-> Dot(Pc[k], Pc[k])], 1, n)

\* s = trace(S) / sum |Pc_i|^2
FitScale(trace, spread, denP, denQ) == RMul(Rat(trace, spread), Rat(denP, denQ))

\* The fit of P onto Q (paired by index) when the SVD routine returns d.
\* Pc, Qc and H are held times n, n and n^2 denP denQ.
ICP_transform_with_scale(P, Q, H, d) ==
    LET n == Len(P.pts)
        Pc == Centered(P.pts)
        S == SingularValues(H, d)
        R == KabschRotation(d)
        s == FitScale(S[1] + S[2] + S[3], SumSquares(Pc, n), P.den, Q.den)
        sP == SumVecs(P.pts, n)
        sQ == SumVecs(Q.pts, n)
        cP == <<Rat(sP[1], n * P.den), Rat(sP[2], n * P.den), Rat(sP[3], n * P.den)>>
        cQ == <<Rat(sQ[1], n * Q.den), Rat(sQ[2], n * Q.den), Rat(sQ[3], n * Q.den)>>
        sRm == QScaleMat(s, QMat(R))
    IN  IF S[2] = 0
        THEN [error |-> "InsufficientGeometry"]
        ELSE [error |-> "none", s |-> s, R |-> R, sR |-> sRm,
              t |-> QVSub(cQ, QMatVec(sRm, cP))]

\* n^2 denP denQ H, for H the cross-covariance of the centred point sets
FitCovariance(P, Q) == CrossCovariance(Centered(P.pts), Centered(Q.pts), Len(P.pts))

-----------------------------------------------------------------------------
(* Cell: remove duplicates, check the count, pick the big circle, fit      *)

\* dists < np.pi * (15/360) / 2, on the squares: (pi / 48)^2 = 9 / 2101 to 6 digits
BelowThreshold(e) == e[2] > 0 /\ e[1] * 2101 < 9 * e[2]

\* a > b on entries of dists
Greater(a, b) == a[2] > 0 /\ b[2] > 0 /\ a[1] * b[2] > b[1] * a[2]

\* np.argwhere: the index pairs of the true entries, row by row
\* np.argwhere: the index pairs of the true entries, row by row (rows lo..hi, by halves)
RECURSIVE ArgWhereRows(_, _, _)
ArgWhereRows(d, lo, hi) ==
    IF lo > hi THEN <<>>
    ELSE IF lo = hi
    THEN LET Hit(j) == BelowThreshold(d[lo][j + 1])
             cols == SelectSeq(Range(Len(d)), Hit)
         IN  Array([k \in 1..Len(cols) |-> <<lo - 1, cols[k]>>])
    ELSE LET mid == (lo + hi) \div 2
         IN  ArgWhereRows(d, lo, mid) \o ArgWhereRows(d, mid + 1, hi)

ArgWhere(d) == ArgWhereRows(d, 1, Len(d))

InList(x, list) == \E k \in 1..Len(list) : list[k] = x

\* list.remove(x), x in the list
ListRemove(list, x) ==
    LET k == CHOOSE i \in 1..Len(list) : list[i] = x /\ \A j \in 1..(i - 1) : list[j] # x
    IN  SubSeq(list, 1, k - 1) \o SubSeq(list, k + 1, Len(list))

\* The loop going over the pairs without removing anything.
RemoveLoopKeepsAll(take, dups, k) == [to_take |-> take, err |-> "none"]

\* for _, dup in filter(lambda dup: dup[0] < dup[1], duplicates): to_take.remove(dup)
\* from pair k on; list.remove raises ValueError when dup is no longer in the list.
RECURSIVE RemoveLoop(_, _, _)
RemoveLoop(take, dups, k) ==
    IF k > Len(dups) THEN [to_take |-> take, err |-> "none"]
    ELSE IF ~(dups[k][1] < dups[k][2]) THEN RemoveLoop(take, dups, k + 1)
    ELSE IF ~InList(dups[k][2], take) THEN [to_take |-> take, err |-> "ValueError"]
    ELSE RemoveLoop(ListRemove(take, dups[k][2]), dups, k + 1)

ExpectedCount == 48

\* The check letting a list that is too long through.
CountAtLeast(take) == Len(take) >= ExpectedCount

\* assert len(to_take) == 48
CountOK(take) == Len(take) = ExpectedCount

\* if dists[to_take[0], to_take[11]] > dists[to_take[24], to_take[35]]: ...
BigCircle(take, d) ==
    IF Greater(d[At(take, 0) + 1][At(take, 11) + 1], d[At(take, 24) + 1][At(take, 35) + 1])
    THEN SubSeq(take, 1, 24)
    ELSE SubSeq(take, 25, Len(take))

\* theta = -(np.arange(0, 360, 15) * pi / 180); expected = (cos, sin, 0)
Expected ==
    [pts |-> Array([k \in 1..24 |-> <<Cos15(k - 1), -Sin15(k - 1), 0>>]), den |-> CosTab[1]]

\* The points ts[big]
TakePoints(view, big) == [pts |-> Array([k \in 1..Len(big) |-> At(view, big[k])]), den |-> 1]

DedupCell ==
    /\ UNCHANGED <<roiVars, fitVars>>
    /\ IF "dists" \notin defined
       THEN /\ err' = "NameError"
            /\ UNCHANGED <<data, frames, Ts, ts, dists, duplicates, to_take, big_circle,
                           sR, t, T, new_Ts, defined>>
       ELSE
       /\ duplicates' = ArgWhere(dists)
       /\ \E loop \in {RemoveLoop(Range(Len(frames)), duplicates', 1)} :
        /\ to_take' = loop.to_take
        /\ UNCHANGED <<data, frames, Ts, ts, dists, T, new_Ts>>
        /\ IF loop.err # "none"
           THEN /\ err' = loop.err
                /\ defined' = defined \cup {"duplicates", "to_take"}
                /\ UNCHANGED <<big_circle, sR, t>>
           ELSE IF ~CountOK(loop.to_take)
           THEN /\ err' = "AssertionError"
                /\ defined' = defined \cup {"duplicates", "to_take"}
                /\ UNCHANGED <<big_circle, sR, t>>
           ELSE /\ big_circle' = BigCircle(to_take', dists)
                /\ \E P \in {TakePoints(TsView, big_circle')} :
                   \E H \in {FitCovariance(P, Expected)} :
                   \E d \in SVDs(H) :
                   \E fit \in {ICP_transform_with_scale(P, Expected, H, d)} :
                      IF fit.error # "none"
                      THEN /\ err' = fit.error
                           /\ defined' = defined \cup {"duplicates", "to_take", "big_circle"}
                           /\ UNCHANGED <<sR, t>>
                      ELSE /\ err' = "none"
                           /\ sR' = fit.sR
                           /\ t' = fit.t
                           /\ defined' = defined \cup
                                {"duplicates", "to_take", "big_circle", "sR", "t"}

-----------------------------------------------------------------------------
(* Cell: T = [[sR, t], [0, 1]]; new_Ts = T @ Ts                            *)

ZeroT == [A |-> QMat(<<<<0, 0, 0>>, <<0, 0, 0>>, <<0, 0, 0>>>>), b |-> QVec(<<0, 0, 0>>), w |-> 0]

\* T @ pose for a pose [[R, t], [0, 1]]: the bottom row of the product is [0, 0, 0, w]
ApplyT(M, pose) ==
    [R |-> QMatMul(M.A, QMat(pose.R)),
     t |-> QVAdd(QMatVec(M.A, QVec(pose.t)), QScaleVec(RInt(M.w), M.b))]

TransformCell ==
    /\ UNCHANGED <<roiVars, fitVars>>
    /\ IF "sR" \notin defined
       THEN /\ T' = ZeroT
            /\ defined' = defined \cup {"T"}
            /\ err' = "NameError"
            /\ UNCHANGED <<data, frames, Ts, ts, dists, duplicates, to_take, big_circle,
                           sR, t, new_Ts>>
       ELSE /\ T' = [A |-> sR, b |-> t, w |-> 1]
            /\ new_Ts' = Array([i \in 1..Len(Ts) |-> ApplyT(T', Ts[i])])
            /\ defined' = defined \cup {"T", "new_Ts"}
            /\ err' = "none"
            /\ UNCHANGED <<data, frames, Ts, ts, dists, duplicates, to_take, big_circle,
                           sR, t>>

Next == LoadFramesCell \/ DistsCell \/ DedupCell \/ TransformCell

Spec == Init /\ [][Next]_vars

-----------------------------------------------------------------------------
(* The duplicate filter and the fit: properties                            *)

Indices(list) == {list[k] : k \in 1..Len(list)}

\* The pairs flagged as duplicates
DupPairs == Indices(duplicates)

\* The duplicate cluster of the poses S: all poses linked to S by flagged pairs
RECURSIVE Cluster(_)
Cluster(S) ==
    LET more == S \cup {p[2] : p \in {q \in DupPairs : q[1] \in S}}
    IN  IF more = S THEN S ELSE Cluster(more)

IsClusterMin(i) == \A j \in Cluster({i}) : i <= j

IsAscending(list) == \A k \in 1..(Len(list) - 1) : list[k] < list[k + 1]

\* C1: for every duplicate relation the pruning loop completes without error and
\* keeps exactly the lowest index of every duplicate cluster (a pose flagged with
\* nothing is a cluster of its own).
C1_LoopKeepsClusterMinimum ==
    "to_take" \in defined =>
        /\ err # "ValueError"
        /\ Indices(to_take) = {i \in 0..(Len(frames) - 1) : IsClusterMin(i)}

\* C2: a retained count other than 48 stops the pipeline where it is found: the
\* cell that finds it raises, and no big circle, fit or transformed pose set
\* exists beside such a list; the fit is reached with 48 retained poses only.
C2_WrongCountIsFatal ==
    [][("to_take" \in defined' /\ Len(to_take') # ExpectedCount) =>
          /\ defined' \cap {"big_circle", "sR", "t", "new_Ts"} = {}
          /\ ("to_take" \notin defined \/ to_take' # to_take) =>
                err' \in {"AssertionError", "ValueError"}]_vars

C2_Witness ==
    /\ "to_take" \in defined /\ Len(frames) = 50 /\ Len(to_take) = 49
    /\ err = "AssertionError"

Spacing(i) ==
    LET others == {dists[i + 1][j + 1][1] : j \in Indices(to_take) \ {i}}
    IN  CHOOSE x \in others : \A y \in others : x <= y

\* The 24 retained poses with the larger spacing
LargerSpacingRing ==
    LET sp == [i \in Indices(to_take) |-> Spacing(i)]
    IN  {i \in Indices(to_take) :
            Cardinality({j \in Indices(to_take) : sp[j] < sp[i]}) >= 24}

\* C4: of 48 well-separated poses on two rings of 24, the indices labelled as the
\* big circle are the members of the ring with the larger spacing, whichever of
\* the sorted indices lie on which ring.
C4_BigCircleIsLargerRing ==
    ("big_circle" \in defined /\ Len(frames) = ExpectedCount) =>
        /\ to_take = Range(ExpectedCount)
        /\ Indices(big_circle) = LargerSpacingRing

\* C5: the transformed pose set holds the retained poses only: one pose for every
\* index the filter kept and none for an index it dropped.
C5_TransformedSetIsDeduplicated ==
    "new_Ts" \in defined => Len(new_Ts) = Len(to_take)

IsOrthonormal(M) == QMatMul(M, Transpose(M)) = QMat(Identity)

\* C6: the scale of the fit goes into the translations only: every transformed
\* pose keeps an orthonormal rotation block.
C6_RotationBlocksStayOrthonormal ==
    "new_Ts" \in defined => \A i \in 1..Len(new_Ts) : IsOrthonormal(new_Ts[i].R)

-----------------------------------------------------------------------------
(* The region-of-interest cells: estimate the subject's height from the    *)
(* cameras' optical axes, shift it to z = 0, rescale to the unit box.      *)
(* They read the canonicalized frames; a camera is given by a rational     *)
(* orthonormal orientation, a point its optical axis passes through and    *)
(* its distance from that point along the axis.                            *)

MaxCams == 2
MaxRuns == 3

\* M / den for an integer matrix M
Orient(M, den) == QScaleMat(Rat(1, den), QMat(M))

\* Orientations by their optical axis (third column)
Orientations ==
    [tilt_a    |-> Orient(<<<<2, 2, 1>>, <<-2, 1, 2>>, <<1, -2, 2>>>>, 3),   \* (1, 2, 2) / 3
     tilt_b    |-> Orient(<<<<1, -2, 2>>, <<2, 2, 1>>, <<-2, 1, 2>>>>, 3),   \* (2, 1, 2) / 3
     tilt_c    |-> Orient(<<<<-2, 1, 2>>, <<1, -2, 2>>, <<2, 2, 1>>>>, 3),   \* (2, 2, 1) / 3
     no_x      |-> Orient(<<<<5, 0, 0>>, <<0, 4, 3>>, <<0, -3, 4>>>>, 5),    \* (0, 3, 4) / 5
     overhead  |-> QMat(Identity)]                                           \* (0, 0, 1)

\* A camera at distance m from the point p, on the optical axis through p
CameraAt(name, p, m) ==
    LET R == Orientations[name]
    IN  [R |-> R, t |-> QVAdd(QVec(p), QScaleVec(RInt(m), Col(R, 3)))]

OnAxisPoint == <<0, 0, 3>>
OffAxisPoint == <<1, 2, 3>>

RoiCameras ==
    {CameraAt(name, OnAxisPoint, m) :
        name \in {"tilt_a", "tilt_b", "tilt_c", "no_x", "overhead"}, m \in {3, 15}}
    \cup {CameraAt(name, OffAxisPoint, 3) : name \in {"tilt_a", "tilt_b"}}

Intrinsics ==
    {[fl_x |-> 1, fl_y |-> 1, cx |-> 1, cy |-> 1],
     [fl_x |-> 1, fl_y |-> 2, cx |-> 2, cy |-> 1]}

CameraLists == UNION {[1..n -> RoiCameras] : n \in 1..MaxCams}

InitROI ==
    /\ \E cams \in CameraLists, k \in Intrinsics :
          /\ frames = FramesOf(cams, FALSE)
          /\ data = [frames |-> frames, fl_x |-> k.fl_x, fl_y |-> k.fl_y,
                     cx |-> k.cx, cy |-> k.cy]
    /\ Ts = TransformMatrices(frames)
    /\ ts = Undefined /\ dists = Undefined /\ duplicates = Undefined
    /\ to_take = Undefined /\ big_circle = Undefined
    /\ sR = Undefined /\ t = Undefined /\ T = Undefined /\ new_Ts = Undefined
    /\ z_height = Undefined /\ scale_factor = Undefined /\ runs = 0
    /\ fit_in = Undefined /\ fit_out = Undefined
    /\ defined = {"data", "frames", "Ts"}
    /\ err = "none"

\* Cell: Ts = np.array(...); fx, fy, cx, cy = data[...]; R, t = Ts[0, ...];
\* ray_angle = R[:, 2].reshape(-1, 1); ray_angle /= np.linalg.norm(ray_angle).
\* The in-place division works on Ts[0, :3, 2], a unit vector: it divides by 1.
LoadPosesCell ==
    /\ Ts' = TransformMatrices(frames)
    \* views taken of the array Ts was bound to stay on that array
    /\ ts' = IF "ts" \in defined /\ ts.of_Ts
             THEN [of_Ts |-> FALSE, buf |-> Translations(Ts)]
             ELSE ts
    /\ t' = [view_of |-> "Ts[0, :3, 3]"]
    /\ defined' = defined \cup {"Ts", "fx", "fy", "cx", "cy", "R", "t", "ray_angle"}
    /\ err' = "none"
    /\ UNCHANGED <<data, frames, dists, duplicates, to_take, big_circle, sR, T, new_Ts>>
    /\ UNCHANGED <<roiVars, fitVars>>

\* One camera's row of ratios = v_xy / ray_xy and of z_height = dz_height + ts[:, 2]
HeightEstimate(pose) ==
    LET ray_dirs == Col(pose.R, 3)
        x_xy == <<RNeg(pose.t[1]), RNeg(pose.t[2])>>
        ray_xy == <<ray_dirs[1], ray_dirs[2]>>
        dot == RAdd(RMul(x_xy[1], ray_xy[1]), RMul(x_xy[2], ray_xy[2]))
        sumsq == RAdd(RMul(ray_xy[1], ray_xy[1]), RMul(ray_xy[2], ray_xy[2]))
        v_xy == <<RDiv(RMul(dot, ray_xy[1]), sumsq), RDiv(RMul(dot, ray_xy[2]), sumsq)>>
        ratios == <<RDiv(v_xy[1], ray_xy[1]), RDiv(v_xy[2], ray_xy[2])>>
        dz_height == RMul(ray_dirs[3], ratios[1])
    IN  [ratios |-> ratios, z_height |-> RAdd(dz_height, pose.t[3])]

\* Cell: the closest point to the z axis for camera 0 alone, from the views t
\* and ray_angle of Ts[0].  Its assert compares two floats with ==, which two
\* roundings of one exact value may or may not pass.
SingleCameraCell ==
    /\ runs < MaxRuns
    /\ runs' = runs + 1
    /\ UNCHANGED <<data, frames, Ts, ts, dists, duplicates, to_take, big_circle, sR, t, T,
                   new_Ts>>
    /\ UNCHANGED <<scale_factor, fitVars>>
    /\ IF "t" \notin defined
       THEN /\ err' = "NameError"
            /\ UNCHANGED <<z_height, defined>>
       ELSE \E h \in {HeightEstimate(Ts[1])}, rounds_equal \in BOOLEAN :
               IF IsNaN(h.ratios[1]) \/ h.ratios[1] # h.ratios[2]
                  \/ (IsFinite(h.ratios[1]) /\ ~rounds_equal)
               THEN /\ err' = "AssertionError"
                    /\ defined' = defined \cup {"x_xy", "ray_xy", "v_xy"}
                    /\ UNCHANGED z_height
               ELSE /\ z_height' = h.z_height
                    /\ defined' = defined \cup {"x_xy", "ray_xy", "v_xy", "dz_height",
                                                "z_height", "end_of_ray"}
                    /\ err' = "none"

\* np.testing.assert_allclose(actual, desired) on one element: rtol = 1e-7,
\* atol = 0, NaNs compare equal to NaNs only
AllClose(actual, desired) ==
    IF IsNaN(actual) \/ IsNaN(desired) THEN IsNaN(actual) /\ IsNaN(desired)
    ELSE IF ~IsFinite(actual) \/ ~IsFinite(desired) THEN actual = desired
    ELSE LET diff == RSub(actual, desired)
             gap == <<Abs(diff[1]), diff[2]>>
             mag == <<Abs(desired[1]), desired[2]>>
         IN  ~RLess(mag, RMul(RInt(10000000), gap))

RECURSIVE RSum(_, _, _)
RSum(xs, lo, hi) ==
    IF lo > hi THEN RInt(0)
    ELSE IF lo = hi THEN xs[lo]
    ELSE LET mid == (lo + hi) \div 2
         IN  RAdd(RSum(xs, lo, mid), RSum(xs, mid + 1, hi))

Mean(xs) == RDiv(RSum(xs, 1, Len(xs)), RInt(Len(xs)))

\* For_the_cameras of an array, the scalar z_height
MeanHeight(arr) == Mean(Array([i \in 1..Len(arr) |-> HeightEstimate(arr[i]).z_height]))

\* arr with column z of its translations shifted down by dz (ts_new[:, 2] -= z_height)
ShiftZ(arr, dz) ==
    Array([i \in 1..Len(arr) |->
        [arr[i] EXCEPT !.t = <<arr[i].t[1], arr[i].t[2], RSub(arr[i].t[3], dz)>>]])

\* Cell: the vectorized closest point to the z axis, its mean height, the shift.
\* ts and ts_new are one view of the array bound to Ts.
CenterCell ==
    /\ runs < MaxRuns
    /\ runs' = runs + 1
    /\ ts' = [of_Ts |-> TRUE, buf |-> <<>>]
    /\ UNCHANGED <<data, frames, dists, duplicates, to_take, big_circle, sR, t, T, new_Ts>>
    /\ UNCHANGED <<scale_factor, fitVars>>
    /\ IF \E i \in 1..Len(Ts) :
             LET r == HeightEstimate(Ts[i]).ratios IN ~AllClose(r[1], r[2])
       THEN /\ err' = "AssertionError"
            /\ defined' = defined \cup {"ray_dirs", "ts", "x_xy", "ray_xy", "v_xy", "ratios"}
            /\ UNCHANGED <<Ts, z_height>>
       ELSE /\ z_height' = MeanHeight(Ts)
            /\ Ts' = ShiftZ(Ts, z_height')
            /\ defined' = defined \cup {"ray_dirs", "ts", "x_xy", "ray_xy", "v_xy", "ratios",
                                        "dz_height", "z_height", "ts_new"}
            /\ err' = "none"

\* Python's max(a, b): b when b > a, else a
PyMax(a, b) == IF RLess(a, b) THEN b ELSE a

ScaleFactor(d) ==
    LET radius == RInt(1)
        max_x == RDiv(RMul(radius, RInt(d.cx)), RInt(d.fl_x))
        max_y == RDiv(RMul(radius, RInt(d.cy)), RInt(d.fl_y))
    IN  RDiv(Rat(1, 2), PyMax(max_x, max_y))

ScaleTranslations(arr, c) == Array([i \in 1..Len(arr) |-> QScaleVec(c, arr[i])])

ScalePoses(arr, c) == Array([i \in 1..Len(arr) |-> [arr[i] EXCEPT !.t = QScaleVec(c, arr[i].t)]])

\* Cell: scale_factor = 0.5 / max(radius * cx / fx, radius * cy / fy);
\* ts_new *= scale_factor
RescaleCell ==
    /\ runs < MaxRuns
    /\ runs' = runs + 1
    /\ UNCHANGED <<data, frames, dists, duplicates, to_take, big_circle, sR, t, T, new_Ts>>
    /\ UNCHANGED <<z_height, fitVars>>
    /\ IF "cx" \notin defined
       THEN /\ err' = "NameError"
            /\ defined' = defined \cup {"radius"}
            /\ UNCHANGED <<Ts, ts, scale_factor>>
       ELSE /\ scale_factor' = ScaleFactor(data)
            /\ IF "ts_new" \notin defined
               THEN /\ err' = "NameError"
                    /\ defined' = defined \cup {"radius", "max_x", "max_y", "scale_factor"}
                    /\ UNCHANGED <<Ts, ts>>
               ELSE /\ err' = "none"
                    /\ defined' = defined \cup {"radius", "max_x", "max_y", "scale_factor"}
                    /\ IF ts.of_Ts
                       THEN /\ Ts' = ScalePoses(Ts, scale_factor')
                            /\ UNCHANGED ts
                       ELSE /\ ts' = [ts EXCEPT !.buf = ScaleTranslations(ts.buf, scale_factor')]
                            /\ UNCHANGED Ts

NextROI == LoadPosesCell \/ SingleCameraCell \/ CenterCell \/ RescaleCell

SpecROI == InitROI /\ [][NextROI]_vars

-----------------------------------------------------------------------------
(* The region-of-interest cells: properties                                *)

\* The optical axis of a camera touches the vertical axis' plane sideways-on
IsDegenerate(pose) ==
    LET ray_dirs == Col(pose.R, 3)
    IN  ray_dirs[1] = RInt(0) \/ ray_dirs[2] = RInt(0)

NonDegenerate(arr) == SelectSeq(arr, LAMBDA pose : ~IsDegenerate(pose))

\* The vectorized centering cell has been run, and no other cell that counts
\* its runs has
CenteredOnce == runs = 1 /\ "ts" \in defined

QCross(u, v) ==
    <<RSub(RMul(u[2], v[3]), RMul(u[3], v[2])),
      RSub(RMul(u[3], v[1]), RMul(u[1], v[3])),
      RSub(RMul(u[1], v[2]), RMul(u[2], v[1]))>>

\* The optical axis of the camera passes through the point p
ThroughPoint(pose, p) == QCross(QVSub(p, pose.t), Col(pose.R, 3)) = QVec(<<0, 0, 0>>)

AllThrough(arr, p) == \A i \in 1..Len(arr) : ThroughPoint(arr[i], p)

\* C7: a camera whose optical axis has a zero horizontal component in x or in
\* y is skipped by the height estimation: the cell raises nothing and the
\* height is the mean of the estimates of the other cameras.
C7_DegenerateRaySkipped ==
    LET loaded == TransformMatrices(frames)
    IN  (CenteredOnce /\ Len(NonDegenerate(loaded)) > 0)
            => /\ "z_height" \in defined
               /\ z_height = MeanHeight(NonDegenerate(loaded))

\* C8: when all optical axes pass through one point (x0, y0, z0), the
\* estimated height is z0, and after centering they all pass through the
\* origin.
C8_CommonPointRecovered ==
    \A p \in {OnAxisPoint, OffAxisPoint} :
        LET loaded == TransformMatrices(frames)
        IN  ( /\ CenteredOnce /\ ts.of_Ts
              /\ Len(NonDegenerate(loaded)) = Len(loaded)
              /\ AllThrough(loaded, QVec(p)) )
                => /\ "z_height" \in defined
                   /\ z_height = RInt(p[3])
                   /\ AllThrough(Ts, QVec(<<0, 0, 0>>))

\* C10: the centering and rescaling cells leave the pose array Ts as it was
\* loaded, however often and in whatever order they are run.
C10_StagesLeaveTsUnchanged == Ts = TransformMatrices(frames)

-----------------------------------------------------------------------------
(* The similarity fit on its own: a point set P, a similarity (s, R, t),   *)
(* and the fit of P onto s R P + t.                                        *)

MaxFitScale == 3

\* Point sets whose principal axes are the coordinate axes
Shapes ==
    [box    |-> <<<<3, 0, 0>>, <<-3, 0, 0>>, <<0, 2, 0>>, <<0, -2, 0>>, <<0, 0, 1>>, <<0, 0, -1>>>>,
     plane  |-> <<<<3, 0, 0>>, <<-3, 0, 0>>, <<0, 2, 0>>, <<0, -2, 0>>>>,
     square |-> <<<<2, 0, 0>>, <<-2, 0, 0>>, <<0, 2, 0>>, <<0, -2, 0>>>>,
     line   |-> <<<<3, 0, 0>>, <<-3, 0, 0>>, <<0, 0, 0>>>>]

ShapeAt(name, c) ==
    [pts |-> Array([i \in 1..Len(Shapes[name]) |-> VAdd(Shapes[name][i], c)]), den |-> 1]

FitInputs ==
    {[s |-> s, R |-> R, t |-> off, P |-> ShapeAt(name, c)] :
        s \in 1..MaxFitScale, R \in Rotations, off \in {<<0, 0, 0>>, <<5, -7, 2>>},
        name \in {"box", "plane", "square", "line"}, c \in {<<0, 0, 0>>, <<1, -2, 4>>}}

\* s R P + t
Similar(in) ==
    [pts |-> Array([i \in 1..Len(in.P.pts) |->
                VAdd(VScale(in.s, MatVec(in.R, in.P.pts[i])), in.t)]),
     den |-> 1]

InitFit ==
    /\ fit_in \in FitInputs
    /\ fit_out = Undefined
    /\ data = Undefined /\ frames = Undefined /\ Ts = Undefined
    /\ ts = Undefined /\ dists = Undefined /\ duplicates = Undefined
    /\ to_take = Undefined /\ big_circle = Undefined
    /\ sR = Undefined /\ t = Undefined /\ T = Undefined /\ new_Ts = Undefined
    /\ z_height = Undefined /\ scale_factor = Undefined /\ runs = 0
    /\ defined = {}
    /\ err = "none"

FitCall ==
    /\ fit_out = Undefined
    /\ \E Q \in {Similar(fit_in)} :
       \E H \in {FitCovariance(fit_in.P, Q)} :
       \E d \in SVDs(H) :
          fit_out' = ICP_transform_with_scale(fit_in.P, Q, H, d)
    /\ UNCHANGED <<data, frames, Ts, ts, dists, duplicates, to_take, big_circle, sR, t, T,
                   new_Ts, roiVars, fit_in, defined, err>>

NextFit == FitCall

SpecFit == InitFit /\ [][NextFit]_vars

Cross(u, v) ==
    <<u[2] * v[3] - u[3] * v[2], u[3] * v[1] - u[1] * v[3], u[1] * v[2] - u[2] * v[1]>>

\* The points of P do not all lie on one line
NonCollinear(P) ==
    LET Pc == Centered(P.pts)
    IN  \E i, j \in 1..Len(Pc) : Cross(Pc[i], Pc[j]) # <<0, 0, 0>>

\* C9: the fit of a non-collinear P onto s R P + t returns (s, R, t), with R
\* a proper rotation, whichever decomposition the SVD routine returns.
C9_FitRoundTrip ==
    (fit_out # Undefined /\ NonCollinear(fit_in.P))
        => /\ fit_out.error = "none"
           /\ fit_out.s = RInt(fit_in.s)
           /\ fit_out.R = fit_in.R
           /\ Det(fit_out.R) = 1
           /\ fit_out.sR = QScaleMat(RInt(fit_in.s), QMat(fit_in.R))
           /\ fit_out.t = QVec(fit_in.t)

C9_Witness ==
    /\ fit_out # Undefined
    /\ fit_in.P = ShapeAt("plane", <<1, -2, 4>>)
    /\ fit_in.s = 2 /\ fit_in.R = RotX90 /\ fit_in.t = <<5, -7, 2>>
    /\ fit_out.error = "none" /\ fit_out.s = RInt(2)

====
